---- MODULE Spec2Model ----
(***************************************************************************)
(* Model of scripts/analyze_and_upload.js: the earthquake catalog          *)
(* normalizer (extractEarthquakeEvents), the Poisson estimator             *)
(* (analyzeEarthquakeData) and the orchestration (main) that persists a    *)
(* "latest" snapshot and a run-history log in Firestore.                   *)
(*                                                                         *)
(* Strings that the code inspects character by character (location names)  *)
(* are sequences of one-character strings.  Timestamps are counted in      *)
(* ticks of six hours, so that the 365.25-day year of the code is a whole  *)
(* number of ticks.  Percentages, which the code stores with two decimals, *)
(* are counted in hundredths of a percent.                                 *)
(***************************************************************************)
EXTENDS Integers, Sequences, FiniteSets, TLC

VARIABLES
    \* canonicalization of one location name, applied once and twice
    locationName, countyOnce, countyTwice, cpc,
    \* extractEarthquakeEvents on one parsed catalog
    xmlData, extracted, warnings, epc,
    \* analyzeEarthquakeData on one event sequence
    inputEvents, refNow, analysisData, apc,
    \* main: the process, its environment and the two Firestore collections
    pc, credential, actor, runNo, clock, latest, history, exitCode,
    error, failedAt, runEvents, latestData, latestAtStart, histLenAtStart

canonVars == <<locationName, countyOnce, countyTwice, cpc>>
extractVars == <<xmlData, extracted, warnings, epc>>
analyzeVars == <<inputEvents, refNow, analysisData, apc>>
mainVars == <<pc, credential, actor, runNo, clock, latest, history, exitCode,
              error, failedAt, runEvents, latestData, latestAtStart,
              histLenAtStart>>
vars == <<canonVars, extractVars, analyzeVars, mainVars>>

---------------------------------------------------------------------------
(* Bounds of the model *)

\* longest location name drawn by the canonicalization specification
MaxNameLen == 4
\* most event nodes in a catalog drawn by the extraction specification
MaxNodes == 2
\* most events in a sequence drawn by the estimator specification
MaxEvents == 3
\* runs of main in a row against the same Firestore
MaxRuns == 2

---------------------------------------------------------------------------
(* JavaScript string operations on sequences of characters *)

Min(a, b) == IF a < b THEN a ELSE b

\* one character each, named by code point: the variant glyph of "Tai",
\* its standard glyph, and the blank
TaiVariant == "U+81FA"
TaiStandard == "U+53F0"
Blank == " "

\* any other character
Other == "U+5317"

Alphabet == {TaiVariant, TaiStandard, Blank, Other}

\* String.prototype.substring(0, n)
Substring(s, n) == SubSeq(s, 1, Min(n, Len(s)))

\* String.prototype.includes(ch)
Includes(s, ch) == \E i \in 1..Len(s) : s[i] = ch

\* String.prototype.replace(ch, by) with a string pattern: the FIRST
\* occurrence only
ReplaceFirst(s, ch, by) ==
    IF ~Includes(s, ch) THEN s
    ELSE LET i == CHOOSE j \in 1..Len(s) :
                     s[j] = ch /\ \A k \in 1..(j - 1) : s[k] # ch
         IN [k \in 1..Len(s) |-> IF k = i THEN by ELSE s[k]]

\* String.prototype.trim()
Trim(s) ==
    IF \A i \in 1..Len(s) : s[i] = Blank THEN <<>>
    ELSE LET first == CHOOSE i \in 1..Len(s) :
                         s[i] # Blank /\ \A k \in 1..(i - 1) : s[k] = Blank
             last == CHOOSE i \in 1..Len(s) :
                         s[i] # Blank /\ \A k \in (i + 1)..Len(s) : s[k] = Blank
         IN SubSeq(s, first, last)

---------------------------------------------------------------------------
(* extractEarthquakeEvents: region-name canonicalization, lines 51-55, 62 *)

\* characters kept of a location name
CountyLen == 3

\* let county = location.substring(0, 3);
\* if (county.includes(TaiVariant)) county = county.replace(TaiVariant, TaiStandard);
\* ... county: county.trim()
CountyOf(loc) ==
    LET county == Substring(loc, CountyLen)
        unified == IF Includes(county, TaiVariant)
                   THEN ReplaceFirst(county, TaiVariant, TaiStandard)
                   ELSE county
    IN Trim(unified)

\* all names of at most n characters
NamesUpTo(n) == UNION {[1..k -> Alphabet] : k \in 0..n}

CanonInit ==
    /\ locationName \in NamesUpTo(MaxNameLen)
    /\ countyOnce = <<>>
    /\ countyTwice = <<>>
    /\ cpc = "input"

\* the canonicalization of extractEarthquakeEvents on the location name
Canonicalize ==
    /\ cpc = "input"
    /\ countyOnce' = CountyOf(locationName)
    /\ cpc' = "once"
    /\ UNCHANGED <<locationName, countyTwice, extractVars, analyzeVars, mainVars>>

\* the canonicalization again, on its own output
Recanonicalize ==
    /\ cpc = "once"
    /\ countyTwice' = CountyOf(countyOnce)
    /\ cpc' = "twice"
    /\ UNCHANGED <<locationName, countyOnce, extractVars, analyzeVars, mainVars>>

---------------------------------------------------------------------------
(* Dates *)

\* ticks (six hours each) in the year of 365.25 days of line 79
YearTicks == 1461

\* a Date: a time value in ticks, or the Invalid Date
Date(t) == [valid |-> TRUE, ticks |-> t]
InvalidDate == [valid |-> FALSE, ticks |-> 0]

\* the text of an OriginTime element: one that Date parses to the time t,
\* or one that Date does not parse (an empty element, a mangled text)
TimeText(t) == [parses |-> TRUE, ticks |-> t]
BadTimeText == [parses |-> FALSE, ticks |-> 0]

\* new Date(time)
NewDate(time) == IF time.parses THEN Date(time.ticks) ELSE InvalidDate

---------------------------------------------------------------------------
(* The parsed catalog, as xml2js builds it.  A child element is absent, or  *)
(* a list whose first item either has no such grandchild ("nochild": an    *)
(* empty element, which parses to the empty string, or an element with     *)
(* other children only) or has it, val being the grandchild's first text.  *)
(* An event node is null, a text (an empty Earthquake element) or an       *)
(* object with the children Shindo, Location and EarthquakeInfo.           *)

Field(tag, val) == [tag |-> tag, val |-> val]

NullNode ==
    [kind |-> "null", Shindo |-> Field("absent", ""),
     Location |-> Field("absent", <<>>),
     EarthquakeInfo |-> Field("absent", BadTimeText)]

TextNode == [NullNode EXCEPT !.kind = "text"]

ObjectNode(s, l, i) ==
    [kind |-> "object", Shindo |-> s, Location |-> l, EarthquakeInfo |-> i]

\* the outcome of evaluating an expression: a value, null, or a TypeError
Value(v) == [st |-> "value", val |-> v]
Null(v) == [st |-> "null", val |-> v]
Throw(v) == [st |-> "throw", val |-> v]

\* the default location: four characters, none of them the variant glyph
UnknownCounty == <<Other, Other, Other, Other>>

\* a mutant: a missing intensity is defaulted instead of dropped
ShindoOf_Defaulted(event) ==
    IF event.kind = "null" THEN Throw("")
    ELSE IF event.kind = "text" \/ event.Shindo.tag = "absent" THEN Value("0")
    ELSE IF event.Shindo.tag = "nochild" THEN Throw("")
    ELSE Value(event.Shindo.val)

\* line 47: event.Shindo ? event.Shindo[0].ShindoValue[0] : null
ShindoOf(event) ==
    IF event.kind = "null" THEN Throw("")
    ELSE IF event.kind = "text" \/ event.Shindo.tag = "absent" THEN Null("")
    ELSE IF event.Shindo.tag = "nochild" THEN Throw("")
    ELSE Value(event.Shindo.val)

\* line 48: event.Location ? event.Location[0].LocationName[0] : UnknownCounty
LocationOf(event) ==
    IF event.kind = "null" THEN Throw(<<>>)
    ELSE IF event.kind = "text" \/ event.Location.tag = "absent"
         THEN Value(UnknownCounty)
    ELSE IF event.Location.tag = "nochild" THEN Throw(<<>>)
    ELSE Value(event.Location.val)

\* line 49: event.EarthquakeInfo[0].OriginTime[0]
OriginTimeOf(event) ==
    IF event.kind \in {"null", "text"} THEN Throw(BadTimeText)
    ELSE IF event.EarthquakeInfo.tag \in {"absent", "nochild"}
         THEN Throw(BadTimeText)
    ELSE Value(event.EarthquakeInfo.val)

\* !shindo
Falsy(shindo) == shindo.st = "null" \/ shindo.val = ""

NoRecord == [time |-> InvalidDate, county |-> <<>>, shindo |-> ""]

\* lines 46-64, the body of the try block: a record, null, or a TypeError
TryBody(event) ==
    LET shindo == ShindoOf(event)
        loc == LocationOf(event)
        time == OriginTimeOf(event)
    IN IF shindo.st = "throw" \/ loc.st = "throw" \/ time.st = "throw"
       THEN [st |-> "throw", rec |-> NoRecord]
       ELSE IF Falsy(shindo) THEN [st |-> "null", rec |-> NoRecord]
       ELSE [st |-> "record",
             rec |-> [time |-> NewDate(time.val),
                      county |-> CountyOf(loc.val),
                      shindo |-> shindo.val]]

\* a mutant: no try/catch around the body
MapCallback_NoCatch(event) ==
    LET r == TryBody(event)
    IN [st |-> r.st, rec |-> r.rec, warned |-> FALSE]

\* lines 44-68, the callback of events.map: the try block, and the catch
\* that warns and returns null
MapCallback(event) ==
    LET r == TryBody(event)
    IN IF r.st = "throw"
       THEN [st |-> "null", rec |-> NoRecord, warned |-> TRUE]
       ELSE [st |-> r.st, rec |-> r.rec, warned |-> FALSE]

RECURSIVE FilterRecords(_)
\* line 69: .filter(e => e !== null), on the mapped outcomes
FilterRecords(mapped) ==
    IF mapped = <<>> THEN <<>>
    ELSE LET rest == FilterRecords(Tail(mapped))
         IN IF Head(mapped).st = "record"
            THEN <<Head(mapped).rec>> \o rest
            ELSE rest

\* lines 37-70: the returned sequence, whether the call raised, and the
\* number of warnings written to the console
extractEarthquakeEvents(data) ==
    IF ~data.hasEvents
    THEN [raised |-> FALSE, value |-> <<>>, warnings |-> 0]
    ELSE LET events == data.Earthquake
             mapped == [i \in 1..Len(events) |-> MapCallback(events[i])]
         IN IF \E i \in 1..Len(events) : mapped[i].st = "throw"
            THEN [raised |-> TRUE, value |-> <<>>, warnings |-> 0]
            ELSE [raised |-> FALSE, value |-> FilterRecords(mapped),
                  warnings |->
                      Cardinality({i \in 1..Len(events) : mapped[i].warned})]

\* a parsed document without the path Data.Earthquake, and one with it
NoEventList == [hasEvents |-> FALSE, Earthquake |-> <<>>]
EventList(events) == [hasEvents |-> TRUE, Earthquake |-> events]

---------------------------------------------------------------------------
(* The catalogs drawn by the extraction specification *)

SomeTime == TimeText(2 * YearTicks)

ShindoFields ==
    {Field("absent", ""), Field("nochild", ""), Field("value", ""),
     Field("value", "4")}

LocationFields ==
    {Field("absent", <<>>), Field("nochild", <<>>), Field("value", <<>>),
     Field("value", <<Blank, TaiVariant, TaiVariant, Other>>)}

InfoFields ==
    {Field("absent", BadTimeText), Field("nochild", BadTimeText),
     Field("value", BadTimeText), Field("value", SomeTime)}

ExtractNodes ==
    {NullNode, TextNode}
    \cup {ObjectNode(s, l, i) :
            s \in ShindoFields, l \in LocationFields, i \in InfoFields}

ExtractCatalogs ==
    {NoEventList}
    \cup {EventList(e) : e \in UNION {[1..k -> ExtractNodes] : k \in 1..MaxNodes}}

ExtractInit ==
    /\ xmlData \in ExtractCatalogs
    /\ extracted = <<>>
    /\ warnings = 0
    /\ epc = "input"

\* one call of extractEarthquakeEvents
Extract ==
    /\ epc = "input"
    /\ LET r == extractEarthquakeEvents(xmlData)
       IN /\ extracted' = r.value
          /\ warnings' = r.warnings
          /\ epc' = IF r.raised THEN "raised" ELSE "returned"
    /\ UNCHANGED <<xmlData, canonVars, analyzeVars, mainVars>>

---------------------------------------------------------------------------
(* Math.exp and Math.round in fixed point.  A real x in [0, 1] is the      *)
(* integer x * One, rounded down; products are taken on the two halves of  *)
(* the factors so that no intermediate value leaves 32 bits.               *)

HalfScale == 10000
One == HalfScale * HalfScale

\* a * b for fixed-point a and b in [0, One]
MulFix(a, b) ==
    LET a1 == a \div HalfScale
        a0 == a % HalfScale
        b1 == b \div HalfScale
        b0 == b % HalfScale
    IN a1 * b1 + ((a1 * b0 + a0 * b1 + ((a0 * b0) \div HalfScale)) \div HalfScale)

\* r / q for integers 0 <= r < q
FracFix(r, q) ==
    ((r * HalfScale) \div q) * HalfScale
    + ((((r * HalfScale) % q) * HalfScale) \div q)

\* Math.exp(-1)
ExpNegOne == 36787944

\* terms of the series of Math.exp(-f) that are summed
SeriesTerms == 14

RECURSIVE Series(_, _, _, _)
\* the alternating series of exp(-f) from term k on, term being f^k / k!
Series(f, k, term, acc) ==
    IF k > SeriesTerms \/ term = 0 THEN acc
    ELSE Series(f, k + 1, MulFix(term, f) \div (k + 1),
                IF k % 2 = 0 THEN acc + term ELSE acc - term)

RECURSIVE PowExpNegOne(_)
\* Math.exp(-n) for a natural number n; below 1 / One from n = 19 on
PowExpNegOne(n) ==
    IF n = 0 THEN One
    ELSE IF n > 18 THEN 0
    ELSE MulFix(PowExpNegOne(n - 1), ExpNegOne)

\* Math.exp(-(p / q)) for integers p >= 0 and q > 0
ExpNeg(p, q) ==
    MulFix(PowExpNegOne(p \div q), Series(FracFix(p % q, q), 0, One, 0))

\* Math.round(probability * 10000), probability being 1 - e for fixed-point e
RoundBasisPoints(e) == (One - e + (HalfScale \div 2)) \div HalfScale

---------------------------------------------------------------------------
(* analyzeEarthquakeData, lines 75-115 *)

\* Date < Date compares the time values; a comparison with the Invalid Date
\* (NaN) is false
DateLess(a, b) == a.valid /\ b.valid /\ a.ticks < b.ticks

RECURSIVE MinHistoryDate(_, _)
\* line 78: allEvents.reduce((min, e) => e.time < min ? e.time : min, now)
MinHistoryDate(events, min) ==
    IF events = <<>> THEN min
    ELSE MinHistoryDate(Tail(events),
                        IF DateLess(Head(events).time, min)
                        THEN Head(events).time ELSE min)

\* line 79: totalAnalysisYears is WindowTicks / YearTicks
WindowTicks(events, nowDate) ==
    nowDate.ticks - MinHistoryDate(events, nowDate).ticks

\* a mutant: any history at all is enough
TooShort_Zero(windowTicks) == windowTicks <= 0

\* line 81: totalAnalysisYears < 1
TooShort(windowTicks) == windowTicks < YearTicks

\* an object without properties
EmptyObject == [k \in {} |-> 0]

\* a mutant: the count is set, not incremented
Increment_Set(stats, event) ==
    LET row == IF event.county \in DOMAIN stats
               THEN stats[event.county] ELSE EmptyObject
        newRow == [k \in DOMAIN row \cup {event.shindo} |->
                     IF k = event.shindo THEN 1 ELSE row[k]]
    IN [k \in DOMAIN stats \cup {event.county} |->
          IF k = event.county THEN newRow ELSE stats[k]]

\* lines 89-92: if (!stats[county]) stats[county] = {};
\*              stats[county][shindo] = (stats[county][shindo] || 0) + 1;
\* (region and intensity labels are taken not to name a property that every
\* JavaScript object inherits)
Increment(stats, event) ==
    LET row == IF event.county \in DOMAIN stats
               THEN stats[event.county] ELSE EmptyObject
        old == IF event.shindo \in DOMAIN row THEN row[event.shindo] ELSE 0
        newRow == [k \in DOMAIN row \cup {event.shindo} |->
                     IF k = event.shindo THEN old + 1 ELSE row[k]]
    IN [k \in DOMAIN stats \cup {event.county} |->
          IF k = event.county THEN newRow ELSE stats[k]]

RECURSIVE Stats(_, _)
\* lines 87-93: the loop over allEvents
Stats(events, stats) ==
    IF events = <<>> THEN stats
    ELSE Stats(Tail(events), Increment(stats, Head(events)))

\* line 97
timeIntervals == <<1, 3, 6, 9>>

\* line 109: the key `${t}yr`
HorizonKey(t) ==
    CASE t = 1 -> "1yr" [] t = 3 -> "3yr" [] t = 6 -> "6yr" [] t = 9 -> "9yr"
      [] OTHER -> "yr"

\* a mutant: the rate is divided by the horizon
Probability_Divided(count, windowTicks, t) ==
    RoundBasisPoints(ExpNeg(count * YearTicks, windowTicks * t))

\* lines 102-109: lambda = count / totalAnalysisYears;
\* Math.round((1 - Math.exp(-(lambda * t))) * 10000) / 100, in hundredths
Probability(count, windowTicks, t) ==
    RoundBasisPoints(ExpNeg(count * t * YearTicks, windowTicks))

\* lines 75-115
analyzeEarthquakeData(events, nowDate) ==
    LET windowTicks == WindowTicks(events, nowDate)
        stats == Stats(events, EmptyObject)
    IN IF TooShort(windowTicks) THEN EmptyObject
       ELSE [c \in DOMAIN stats |->
              [s \in DOMAIN stats[c] |->
                [key \in {HorizonKey(timeIntervals[i]) : i \in 1..Len(timeIntervals)} |->
                   LET t == timeIntervals[CHOOSE i \in 1..Len(timeIntervals) :
                                             HorizonKey(timeIntervals[i]) = key]
                   IN Probability(stats[c][s], windowTicks, t)]]]

---------------------------------------------------------------------------
(* The event sequences drawn by the estimator specification *)

AnalyzeNow == Date(3 * YearTicks)

AnalyzeTimes ==
    {Date(AnalyzeNow.ticks - 2 * YearTicks),
     Date(AnalyzeNow.ticks - ((3 * YearTicks) \div 2)),
     Date(AnalyzeNow.ticks - YearTicks),
     Date(AnalyzeNow.ticks - YearTicks + 1),
     Date(AnalyzeNow.ticks + 1),
     InvalidDate}

Taipei == <<TaiStandard, Other, Other>>
Hualien == <<Other, Other, Other>>

AnalyzeCells == {<<Taipei, "3">>, <<Taipei, "4">>, <<Hualien, "3">>}

AnalyzeEvents ==
    {[time |-> t, county |-> c[1], shindo |-> c[2]] :
        t \in AnalyzeTimes, c \in AnalyzeCells}

AnalyzeInit ==
    /\ inputEvents \in UNION {[1..k -> AnalyzeEvents] : k \in 0..MaxEvents}
    /\ refNow = AnalyzeNow
    /\ analysisData = EmptyObject
    /\ apc = "input"

\* one call of analyzeEarthquakeData
Analyze ==
    /\ apc = "input"
    /\ analysisData' = analyzeEarthquakeData(inputEvents, refNow)
    /\ apc' = "returned"
    /\ UNCHANGED <<inputEvents, refNow, canonVars, extractVars, mainVars>>

---------------------------------------------------------------------------
(* main, lines 137-202, and getFirestoreInstance, lines 121-134.           *)
(* Each action is the code that runs between two awaits.  A Firestore      *)
(* write takes effect when its promise resolves; a rejected write leaves   *)
(* the collection as it was.  latest, latestData and error hold zero or    *)
(* one value, as a sequence.  Timestamp.now() reads a clock that advances  *)
(* by one at every call.                                                   *)

\* line 140: process.env.GITHUB_ACTOR || "GitHub Actions System Automation"
SystemAutomation == "GitHub Actions System Automation"
UpdaterName(githubActor) ==
    IF githubActor = "" THEN SystemAutomation ELSE githubActor

SystemUID == "system-gh-actions"
SuccessStatus == "SUCCESS (Auto)"
FailedStatus == "FAILED (Auto)"

\* line 157: the message of the error thrown when no event was extracted
NoEventsMessage == "no earthquake event data"
\* line 197: the message recorded for an error without one
UnknownError == "unknown error"
\* the message of the TypeError of a call that raised in the extraction
TypeErrorMessage == "TypeError"

\* new Date() of line 76, when main runs
MainNow == Date(3 * YearTicks)

\* an event two years before MainNow, one six hours before it, and an
\* Earthquake element without children
OldNode ==
    ObjectNode(Field("value", "4"),
               Field("value", <<TaiVariant, Other, Other, Other>>),
               Field("value", TimeText(MainNow.ticks - 2 * YearTicks)))
RecentNode ==
    ObjectNode(Field("value", "3"), Field("absent", <<>>),
               Field("value", TimeText(MainNow.ticks - 1)))

\* what a fetch can resolve to
MainCatalogs ==
    {NoEventList, EventList(<<TextNode>>), EventList(<<OldNode>>),
     EventList(<<RecentNode, OldNode>>)}

\* the messages of the errors a fetch and a Firestore write reject with
FetchErrors == {"Request failed with status code 404", ""}
WriteErrors == {"UNAVAILABLE"}

\* the exit status of a process whose main() promise rejected unhandled:
\* 1 where Node ends the process on it, 0 where Node only warns
UnhandledRejectionStatus == {0, 1}

\* line 197: error.message || UnknownError
ErrorMessage(err) == IF err[1] = "" THEN UnknownError ELSE err[1]

\* lines 192-198: the document of a failed run
FailedEntry(err, time, name) ==
    [updateTime |-> time, updaterName |-> name, updaterUID |-> SystemUID,
     status |-> FailedStatus, errorMessage |-> ErrorMessage(err)]

\* lines 178-184: the document of a successful run
SuccessEntry(time, name, count) ==
    [updateTime |-> time, updaterName |-> name, updaterUID |-> SystemUID,
     status |-> SuccessStatus, eventCount |-> count]

\* lines 165-172
LatestData(time, name, analysis, count) ==
    [updateTime |-> time, updaterName |-> name, updaterUID |-> SystemUID,
     analysisData |-> analysis, disclaimer |-> "disclaimer",
     totalEvents |-> count]

MainInit ==
    /\ pc = "idle"
    /\ credential = "valid"
    /\ actor = ""
    /\ runNo = 0
    /\ clock = 0
    /\ latest = <<>>
    /\ history = <<>>
    /\ exitCode = 0
    /\ error = <<>>
    /\ failedAt = "none"
    /\ runEvents = <<>>
    /\ latestData = <<>>
    /\ latestAtStart = <<>>
    /\ histLenAtStart = 0

Ended == pc \in {"exited", "resolved", "crashed"}

\* lines 188-198, the catch block up to its await: the error is logged and
\* the FAILED document, stamped now, is handed to update_history.add
EnterCatch(message, stage) ==
    /\ error' = <<message>>
    /\ failedAt' = stage
    /\ clock' = clock + 1
    /\ pc' = "addingFailed"

\* lines 204 and 137-149: a new process; getFirestoreInstance ends it with
\* status 1 without the credential and throws on one that is not JSON,
\* outside the try block; otherwise both fetches are started
otherThanMain == <<canonVars, extractVars, analyzeVars>>

Start(serviceAccountJson, githubActor) ==
    /\ pc = "idle" \/ Ended
    /\ runNo < MaxRuns
    /\ runNo' = runNo + 1
    /\ credential' = serviceAccountJson
    /\ actor' = githubActor
    /\ latestAtStart' = latest
    /\ histLenAtStart' = Len(history)
    /\ error' = <<>>
    /\ failedAt' = IF serviceAccountJson = "valid" THEN "none" ELSE "credential"
    /\ runEvents' = <<>>
    /\ latestData' = <<>>
    /\ \/ /\ serviceAccountJson = "missing"
          /\ pc' = "exited"
          /\ exitCode' = 1
       \/ /\ serviceAccountJson = "invalid"
          /\ pc' = "crashed"
          /\ exitCode' \in UnhandledRejectionStatus
       \/ /\ serviceAccountJson = "valid"
          /\ pc' = "fetching"
          /\ exitCode' = 0
    /\ UNCHANGED <<clock, latest, history>>
    /\ UNCHANGED otherThanMain

\* lines 146-175: both fetches resolved; extraction, merge, the check for
\* no events, the analysis, and the snapshot handed to doc('latest').set
FetchResolved(currentYearXml, historyXml) ==
    /\ pc = "fetching"
    /\ LET currentEvents == extractEarthquakeEvents(currentYearXml)
           historyEvents == extractEarthquakeEvents(historyXml)
           events == currentEvents.value \o historyEvents.value
       IN IF currentEvents.raised \/ historyEvents.raised
          THEN /\ EnterCatch(TypeErrorMessage, "extract")
               /\ UNCHANGED <<runEvents, latestData>>
          ELSE IF Len(events) = 0
          THEN /\ EnterCatch(NoEventsMessage, "noEvents")
               /\ UNCHANGED <<runEvents, latestData>>
          ELSE /\ runEvents' = events
               /\ clock' = clock + 1
               /\ latestData' =
                     <<LatestData(clock + 1, UpdaterName(actor),
                                  analyzeEarthquakeData(events, MainNow),
                                  Len(events))>>
               /\ pc' = "settingLatest"
               /\ UNCHANGED <<error, failedAt>>
    /\ UNCHANGED <<credential, actor, runNo, latest, history, exitCode,
                   latestAtStart, histLenAtStart>>
    /\ UNCHANGED otherThanMain

\* lines 146-149 and 188-198: a fetch rejected
FetchRejected(message) ==
    /\ pc = "fetching"
    /\ EnterCatch(message, "fetch")
    /\ UNCHANGED <<credential, actor, runNo, latest, history, exitCode,
                   runEvents, latestData, latestAtStart, histLenAtStart>>
    /\ UNCHANGED otherThanMain

\* lines 175-184: the snapshot is written; the SUCCESS document is handed
\* to update_history.add
LatestSetResolved ==
    /\ pc = "settingLatest"
    /\ latest' = latestData
    /\ pc' = "addingSuccess"
    /\ UNCHANGED <<credential, actor, runNo, clock, history, exitCode, error,
                   failedAt, runEvents, latestData, latestAtStart,
                   histLenAtStart>>
    /\ UNCHANGED otherThanMain

\* a mutant: the snapshot is replaced although its write is rejected
LatestSetRejected_Written(message) ==
    /\ pc = "settingLatest"
    /\ EnterCatch(message, "setLatest")
    /\ latest' = latestData
    /\ UNCHANGED <<credential, actor, runNo, history, exitCode,
                   runEvents, latestData, latestAtStart, histLenAtStart>>
    /\ UNCHANGED otherThanMain

\* lines 175 and 188-198: the snapshot write rejected
LatestSetRejected(message) ==
    /\ pc = "settingLatest"
    /\ EnterCatch(message, "setLatest")
    /\ UNCHANGED <<credential, actor, runNo, latest, history, exitCode,
                   runEvents, latestData, latestAtStart, histLenAtStart>>
    /\ UNCHANGED otherThanMain

\* lines 178-186 and 202: the SUCCESS entry is appended, main returns and
\* the process ends with status 0
HistoryAddResolved ==
    /\ pc = "addingSuccess"
    /\ history' = Append(history,
                         SuccessEntry(latestData[1].updateTime,
                                      UpdaterName(actor), Len(runEvents)))
    /\ pc' = "resolved"
    /\ exitCode' = 0
    /\ UNCHANGED <<credential, actor, runNo, clock, latest, error, failedAt,
                   runEvents, latestData, latestAtStart, histLenAtStart>>
    /\ UNCHANGED otherThanMain

\* lines 178 and 188-198: the SUCCESS write rejected
HistoryAddRejected(message) ==
    /\ pc = "addingSuccess"
    /\ EnterCatch(message, "addHistory")
    /\ UNCHANGED <<credential, actor, runNo, latest, history, exitCode,
                   runEvents, latestData, latestAtStart, histLenAtStart>>
    /\ UNCHANGED otherThanMain

\* a mutant: the process ends with status 1 without the FAILED entry
FailedAddResolved_NoEntry ==
    /\ pc = "addingFailed"
    /\ pc' = "exited"
    /\ exitCode' = 1
    /\ UNCHANGED <<credential, actor, runNo, clock, latest, history, error,
                   failedAt, runEvents, latestData, latestAtStart,
                   histLenAtStart>>
    /\ UNCHANGED otherThanMain

\* lines 192-200: the FAILED entry is appended; process.exit(1)
FailedAddResolved ==
    /\ pc = "addingFailed"
    /\ history' = Append(history,
                         FailedEntry(error, clock, UpdaterName(actor)))
    /\ pc' = "exited"
    /\ exitCode' = 1
    /\ UNCHANGED <<credential, actor, runNo, clock, latest, error, failedAt,
                   runEvents, latestData, latestAtStart, histLenAtStart>>
    /\ UNCHANGED otherThanMain

\* line 192: the FAILED write rejected inside the catch block; main()
\* rejects and nothing handles it
FailedAddRejected ==
    /\ pc = "addingFailed"
    /\ pc' = "crashed"
    /\ exitCode' \in UnhandledRejectionStatus
    /\ UNCHANGED <<credential, actor, runNo, clock, latest, history, error,
                   failedAt, runEvents, latestData, latestAtStart,
                   histLenAtStart>>
    /\ UNCHANGED otherThanMain

---------------------------------------------------------------------------
(* Specifications.  Each runs one part of the program; the variables of    *)
(* the other parts stay as they are.                                       *)

CanonOff ==
    /\ locationName = <<>>
    /\ countyOnce = <<>>
    /\ countyTwice = <<>>
    /\ cpc = "off"

ExtractOff ==
    /\ xmlData = NoEventList
    /\ extracted = <<>>
    /\ warnings = 0
    /\ epc = "off"

AnalyzeOff ==
    /\ inputEvents = <<>>
    /\ refNow = MainNow
    /\ analysisData = EmptyObject
    /\ apc = "off"

Init == CanonOff /\ ExtractOff /\ AnalyzeOff /\ MainInit

Next ==
    \/ \E c \in {"missing", "invalid", "valid"}, a \in {"", "octocat"} :
          Start(c, a)
    \/ \E cur \in MainCatalogs, hist \in MainCatalogs :
          FetchResolved(cur, hist)
    \/ \E m \in FetchErrors : FetchRejected(m)
    \/ LatestSetResolved
    \/ \E m \in WriteErrors : LatestSetRejected(m)
    \/ HistoryAddResolved
    \/ \E m \in WriteErrors : HistoryAddRejected(m)
    \/ FailedAddResolved
    \/ FailedAddRejected

\* the orchestration: runs of main against one Firestore
Spec == Init /\ [][Next]_vars

CanonNext == Canonicalize \/ Recanonicalize

\* the region-name canonicalization on every short name
InitCanon == CanonInit /\ ExtractOff /\ AnalyzeOff /\ MainInit
SpecCanon == InitCanon /\ [][CanonNext]_vars

ExtractNext == Extract

\* extractEarthquakeEvents on every small catalog
InitExtract == ExtractInit /\ CanonOff /\ AnalyzeOff /\ MainInit
SpecExtract == InitExtract /\ [][ExtractNext]_vars

AnalyzeNext == Analyze

\* analyzeEarthquakeData on every short event sequence
InitAnalyze == AnalyzeInit /\ CanonOff /\ ExtractOff /\ MainInit
SpecAnalyze == InitAnalyze /\ [][AnalyzeNext]_vars

---------------------------------------------------------------------------
(* Properties of the region-name canonicalization, under SpecCanon *)

\* C3: the canonicalization is idempotent: applied to its own output it
\* returns that output.
C3_Idempotent == cpc = "twice" => countyTwice = countyOnce

\* the name with every occurrence of ch replaced by by
ReplaceAll(s, ch, by) == [k \in 1..Len(s) |-> IF s[k] = ch THEN by ELSE s[k]]

\* C4: for a location name that contains the variant glyph, the region is
\* trim(first3(replaceAll(name, variant, standard))) and holds no variant
\* glyph.
C4_EveryOccurrenceReplaced ==
    (cpc # "input" /\ Includes(locationName, TaiVariant)) =>
        /\ countyOnce =
              Trim(Substring(ReplaceAll(locationName, TaiVariant, TaiStandard),
                             CountyLen))
        /\ ~Includes(countyOnce, TaiVariant)

---------------------------------------------------------------------------
(* Properties of extractEarthquakeEvents, under SpecExtract *)

Nodes == xmlData.Earthquake

\* C2: every returned record has a valid time, a non-empty region and a
\* non-empty intensity.
C2_AllFieldsPopulated ==
    epc = "returned" =>
        \A i \in 1..Len(extracted) :
            /\ extracted[i].time.valid
            /\ extracted[i].county # <<>>
            /\ extracted[i].shindo # ""

\* a node without an intensity value: no Shindo element, one without a
\* ShindoValue, or an empty ShindoValue
LacksIntensity(node) ==
    \/ node.kind # "object"
    \/ node.Shindo.tag # "value"
    \/ node.Shindo.val = ""

\* C5: no record comes from a node that lacks an intensity value (the
\* records map, in order and one to one, to nodes that have one, whose
\* intensity they carry), and there are at most as many records as nodes.
C5_NoIntensityNoRecord ==
    epc # "input" =>
        /\ Len(extracted) <= Len(Nodes)
        /\ \E f \in [1..Len(extracted) -> 1..Len(Nodes)] :
              /\ \A i, j \in 1..Len(extracted) : i < j => f[i] < f[j]
              /\ \A i \in 1..Len(extracted) :
                    /\ ~LacksIntensity(Nodes[f[i]])
                    /\ extracted[i].shindo = Nodes[f[i]].Shindo.val

\* a node lacks its intensity and nothing else, next to a node that yields
\* a record
C5_Witness ==
    /\ epc = "returned"
    /\ Len(extracted) = 1
    /\ \E i \in 1..Len(Nodes) :
          /\ Nodes[i].kind = "object"
          /\ Nodes[i].Shindo.tag = "absent"
          /\ Nodes[i].Location.tag = "value"
          /\ Nodes[i].EarthquakeInfo = Field("value", SomeTime)

\* a node the three reads of lines 47-49 succeed on: an object with an
\* intensity value and an origin time, whose Location is either absent (the
\* default name is used) or holds a name
WellFormed(node) ==
    /\ node.kind = "object"
    /\ node.Shindo.tag = "value" /\ node.Shindo.val # ""
    /\ node.Location.tag \in {"absent", "value"}
    /\ node.EarthquakeInfo.tag = "value"

\* the record of a well-formed node
RecordOf(node) ==
    [time |-> NewDate(node.EarthquakeInfo.val),
     county |-> CountyOf(IF node.Location.tag = "absent"
                         THEN UnknownCounty ELSE node.Location.val),
     shindo |-> node.Shindo.val]

---------------------------------------------------------------------------
(* Properties of analyzeEarthquakeData, under SpecAnalyze *)

\* the window of the claims, in ticks: now minus the earliest event time,
\* the earliest time being now when no event has a time
ValidTicks == {inputEvents[i].time.ticks :
                 i \in {j \in 1..Len(inputEvents) : inputEvents[j].time.valid}}
EarliestTicks ==
    IF ValidTicks = {} THEN refNow.ticks
    ELSE CHOOSE t \in ValidTicks : \A u \in ValidTicks : t <= u
ClaimWindow == refNow.ticks - EarliestTicks

\* C7: when totalYears < 1 the result has no entries.
C7_ShortWindowIsEmpty ==
    (apc = "returned" /\ ClaimWindow < YearTicks) =>
        DOMAIN analysisData = {}

\* events, the earliest less than a year old, and an empty result
C7_Witness ==
    /\ apc = "returned"
    /\ Len(inputEvents) = 2
    /\ ClaimWindow = YearTicks - 1
    /\ DOMAIN analysisData = {}

\* the (region, intensity) pairs of the input, and the count of one
Cells == {<<inputEvents[i].county, inputEvents[i].shindo>> :
            i \in 1..Len(inputEvents)}
CountOf(cell) ==
    Cardinality({i \in 1..Len(inputEvents) :
                   <<inputEvents[i].county, inputEvents[i].shindo>> = cell})

HorizonKeys == {"1yr", "3yr", "6yr", "9yr"}

\* C8: when totalYears >= 1 the result has exactly the cells of the input,
\* each with the horizons 1, 3, 6 and 9 years, the value of horizon t being
\* round((1 - e^(-(c / totalYears) t)) * 10000) / 100 for the count c of
\* the cell; at a rate of one a year these are 63.21, 95.02, 99.75, 99.99.
C8_CellsAndValues ==
    (apc = "returned" /\ ClaimWindow >= YearTicks) =>
        /\ DOMAIN analysisData = {cell[1] : cell \in Cells}
        /\ \A c \in DOMAIN analysisData :
              DOMAIN analysisData[c] =
                  {cell[2] : cell \in {x \in Cells : x[1] = c}}
        /\ \A cell \in Cells :
              LET values == analysisData[cell[1]][cell[2]]
                  count == CountOf(cell)
              IN /\ DOMAIN values = HorizonKeys
                 /\ values["1yr"] = Probability(count, ClaimWindow, 1)
                 /\ values["3yr"] = Probability(count, ClaimWindow, 3)
                 /\ values["6yr"] = Probability(count, ClaimWindow, 6)
                 /\ values["9yr"] = Probability(count, ClaimWindow, 9)
                 /\ count * YearTicks = ClaimWindow =>
                       /\ values["1yr"] = 6321
                       /\ values["3yr"] = 9502
                       /\ values["6yr"] = 9975
                       /\ values["9yr"] = 9999

\* two events of one cell, two years and one year old, and a third event
\* of another cell
C8_Witness ==
    /\ apc = "returned"
    /\ Len(inputEvents) = 3
    /\ ClaimWindow = 2 * YearTicks
    /\ CountOf(<<Taipei, "3">>) = 2
    /\ CountOf(<<Hualien, "3">>) = 1
    /\ analysisData[Taipei]["3"]["1yr"] = 6321
    /\ analysisData[Hualien]["3"]["1yr"] = 3935

\* C9: in every cell of a result the percentages do not decrease with the
\* horizon, and each lies between 0 and 100.
C9_MonotoneInHorizon ==
    apc = "returned" =>
        \A c \in DOMAIN analysisData :
            \A s \in DOMAIN analysisData[c] :
                LET values == analysisData[c][s]
                IN /\ values["1yr"] <= values["3yr"]
                   /\ values["3yr"] <= values["6yr"]
                   /\ values["6yr"] <= values["9yr"]
                   /\ \A k \in DOMAIN values :
                         values[k] >= 0 /\ values[k] <= 100 * 100

\* a cell whose percentages grow from horizon to horizon
C9_Witness ==
    /\ apc = "returned"
    /\ \E c \in DOMAIN analysisData :
          \E s \in DOMAIN analysisData[c] :
              /\ analysisData[c][s]["1yr"] < analysisData[c][s]["3yr"]
              /\ analysisData[c][s]["3yr"] < analysisData[c][s]["6yr"]
              /\ analysisData[c][s]["6yr"] < analysisData[c][s]["9yr"]

---------------------------------------------------------------------------
(* Properties of main, under Spec *)

\* the entries the run has appended so far
Appended == SubSeq(history, histLenAtStart + 1, Len(history))

AppendedFailed ==
    Len(Appended) = 1 /\ Appended[1].status = FailedStatus

AppendedSuccess ==
    Len(Appended) = 1 /\ Appended[1].status = SuccessStatus

\* C1, as claimed: a run in which any step failed, the missing credential
\* included, ends with a FAILED entry that carries the failure message and
\* with a non-zero status.
C1_EveryFailureRecorded ==
    (Ended /\ failedAt # "none") =>
        /\ AppendedFailed
        /\ error # <<>> => Appended[1].errorMessage = error[1]
        /\ exitCode # 0

\* C1, amended: a failure inside the try block (a fetch, no events, the
\* snapshot write, the SUCCESS write) hands one FAILED entry to the history;
\* once that write succeeds the entry is there, with the message of the
\* error or the placeholder for an empty one, and the status is 1.  Without
\* the credential the run ends with status 1 and no entry, and a run whose
\* FAILED write is rejected ends with no entry.
C1_FailureInTryRecorded ==
    /\ error # <<>> => pc \in {"addingFailed", "exited", "crashed"}
    /\ (pc = "exited" /\ credential # "missing") =>
          /\ error # <<>>
          /\ AppendedFailed
          /\ Appended[1].errorMessage =
                (IF error[1] = "" THEN UnknownError ELSE error[1])
          /\ exitCode = 1
    /\ (pc = "exited" /\ credential = "missing") =>
          Appended = <<>> /\ exitCode = 1
    /\ pc = "crashed" => Appended = <<>>
    /\ pc = "resolved" => error = <<>> /\ exitCode = 0

\* the SUCCESS write of a run was rejected and its FAILED entry written
C1_Witness ==
    /\ pc = "exited"
    /\ failedAt = "addHistory"
    /\ AppendedFailed
    /\ Appended[1].errorMessage = "UNAVAILABLE"
    /\ exitCode = 1

\* C10, as claimed: the snapshot is replaced only in runs that append a
\* SUCCESS entry, a run that appends a FAILED entry leaves it as it was,
\* and a run appends at most one entry.
C10_SnapshotOnlyWithSuccess ==
    Ended =>
        /\ latest # latestAtStart => AppendedSuccess
        /\ AppendedFailed => latest = latestAtStart
        /\ Len(Appended) <= 1

\* C10, amended: a run appends at most one entry; a run that fails before
\* or in the snapshot write leaves the snapshot as it was; a run that
\* appends SUCCESS has replaced it; and a run whose SUCCESS write is
\* rejected has replaced it too, although it appends FAILED or nothing.
C10_SnapshotBeforeHistory ==
    /\ Len(history) >= histLenAtStart
    /\ Len(Appended) <= 1
    /\ Ended =>
          /\ failedAt \in {"credential", "fetch", "extract", "noEvents",
                           "setLatest"} => latest = latestAtStart
          /\ AppendedSuccess => failedAt = "none" /\ latest = latestData
          /\ failedAt = "addHistory" =>
                /\ latest = latestData
                /\ latest # latestAtStart
                /\ ~AppendedSuccess
          /\ latest # latestAtStart =>
                AppendedSuccess \/ failedAt = "addHistory"

\* a second run whose SUCCESS write was rejected: the snapshot of the first
\* run is replaced and the run is recorded as FAILED
C10_Witness ==
    /\ pc = "exited"
    /\ runNo = 2
    /\ failedAt = "addHistory"
    /\ AppendedFailed
    /\ latestAtStart # <<>>
    /\ latest # latestAtStart

====
